---- MODULE Spec2Model ----
(***************************************************************************)
(* vector_data_generator: the file-splitting loop of main (src/main.rs)    *)
(* together with DataGenerator and ParquetWriter::write_to_file            *)
(* (src/lib.rs).                                                           *)
(*                                                                         *)
(* The random number generator (rand::StdRng), the Arrow record batch and  *)
(* the Parquet writer are libraries: the generator is a deterministic      *)
(* stream indexed by (seed, position), a batch is its two columns, and a   *)
(* file on disk is the rows handed to the writer plus the log of the       *)
(* batch sizes of the write calls.  Compression does not influence any     *)
(* row count and is left out of Config.                                    *)
(***************************************************************************)
EXTENDS Integers, Sequences, FiniteSets, TLC

\* ------------------------------------------------------------------ bounds

\* largest --total-rows explored exhaustively (60, the scenario of the
\* specification, is explored in addition)
MaxTotalRows ==
    7

\* largest --batch-size explored (0 is accepted by the command line)
MaxBatchSize ==
    3

\* largest --seed explored
MaxSeed ==
    1

\* cap on the number of write calls on one file (stops the batch loop of a
\* run whose batches are empty, which would otherwise never end)
MaxBatches ==
    60

\* the largest value of a u64, scaled down to what the model checker counts:
\* seeds are 0..U64_MAX and an addition beyond U64_MAX overflows
U64_MAX ==
    255

\* the seeds explored: the small ones, and the largest u64
Seeds ==
    (0..MaxSeed) \cup {U64_MAX}

\* the two build profiles: "debug" panics on an integer overflow
\* (overflow-checks), "release" wraps around
Profiles ==
    {"debug", "release"}

VectorDims ==
    {1, 4}

ScalarLens ==
    {1, 8}

FileSizes ==
    {1, 40, 80, 1000}

TotalRowsInputs ==
    (0..MaxTotalRows) \cup {60}

\* ------------------------------------------------------------------ state

VARIABLES
    args,               \* parsed command line (main.rs Args), file_size already parsed
    profile,            \* the build profile of the binary
    pc,                 \* position of main / write_to_file
    error,              \* the I/O error main returned with, or "none"
    generator,          \* main: let generator (built for the estimate), once built
    rows_per_file,      \* main: let rows_per_file
    num_files,          \* main: let mut num_files
    total_rows_written, \* main: let mut total_rows_written
    file_seed,          \* main: let file_seed
    file_generator,     \* main: let mut file_generator
    num_rows_to_write,  \* main: let num_rows_to_write
    rows_written,       \* main: let rows_written (the value write_to_file returned)
    total_rows,         \* write_to_file: let mut total_rows
    remaining_rows,     \* write_to_file: let mut remaining_rows
    batch,              \* write_to_file: let batch (the batches alive, oldest first)
    disk,               \* the output directory: one record per created file
    progress,           \* the indicatif progress bar
    reports,            \* what the progress observer was told after a file
    summary             \* the file count printed at the end of the run

vars ==
    <<args, profile, pc, error, generator, rows_per_file, num_files, total_rows_written,
      file_seed, file_generator, num_rows_to_write, rows_written, total_rows,
      remaining_rows, batch, disk, progress, reports, summary>>

\* ------------------------------------------------------- lib.rs: Config

Config_new(vector_dim, scalar_len, target_file_size, seed) ==
    [vector_dim |-> vector_dim, scalar_len |-> scalar_len,
     target_file_size |-> target_file_size, seed |-> seed]

\* ------------------------------------------------ lib.rs: DataGenerator

\* StdRng::seed_from_u64(seed): the k-th value of the stream of that seed
Sample(seed, k) ==
    ((seed + 1) * 7919 + k * 104729) % 65536

\* f32::to_le_bytes: byte i (0 = least significant) of a 32-bit pattern
to_le_bytes(word) ==
    [i \in 1..4 |-> (word \div (256 ^ (i - 1))) % 256]

\* the bug of a generator that ignores the seed of its configuration
DataGenerator_new_unseeded(config) ==
    [config |-> config, rng |-> [seed |-> 0, pos |-> 0]]

DataGenerator_new(config) ==
    [config |-> config, rng |-> [seed |-> config.seed, pos |-> 0]]

\* one vector: vector_dim samples, each turned into 4 little-endian bytes
generate_vector(g) ==
    LET dim == g.config.vector_dim
    IN  CHOOSE out \in
            {[value |-> [j \in 1..(dim * 4) |->
                            to_le_bytes(floats[((j - 1) \div 4) + 1])[((j - 1) % 4) + 1]],
              gen   |-> [g EXCEPT !.rng.pos = g.rng.pos + dim]] :
             floats \in {[i \in 1..dim |-> Sample(g.rng.seed, g.rng.pos + i - 1)]}} :
            TRUE

\* one scalar: scalar_len samples of the 62-character alphanumeric alphabet
generate_scalar(g) ==
    LET len   == g.config.scalar_len
        chars == [i \in 1..len |-> Sample(g.rng.seed, g.rng.pos + i - 1) % 62]
    IN  [value |-> chars,
         gen   |-> [g EXCEPT !.rng.pos = g.rng.pos + len]]

\* the loop body drawing the scalar before the vector
push_row_scalar_first(st) ==
    LET s == generate_scalar(st.gen)
        v == generate_vector(s.gen)
    IN  [vector_data |-> Append(st.vector_data, v.value),
         scalar_data |-> Append(st.scalar_data, s.value),
         gen         |-> v.gen]

\* the body of the for loop of generate_batch: push a vector, then a scalar
push_row(st) ==
    LET v == generate_vector(st.gen)
        s == generate_scalar(v.gen)
    IN  [vector_data |-> Append(st.vector_data, v.value),
         scalar_data |-> Append(st.scalar_data, s.value),
         gen         |-> s.gen]

\* the for loop of generate_batch, n iterations from the state st (the state
\* after an iteration is computed once, before the next iteration starts)
RECURSIVE batch_loop(_, _)
batch_loop(st, n) ==
    IF n <= 0
    THEN st
    ELSE CHOOSE out \in {batch_loop(next, n - 1) : next \in {push_row(st)}} : TRUE

\* generate_batch filling one column after the other (all vectors, then all
\* scalars) instead of row by row
generate_batch_columnwise(g, batch_size) ==
    LET dim == g.config.vector_dim
        len == g.config.scalar_len
        n   == IF batch_size <= 0 THEN 0 ELSE batch_size
    IN  [batch |->
            [schema |-> <<"vector", "scalar">>,
             vector |-> [k \in 1..n |->
                generate_vector([g EXCEPT !.rng.pos =
                                    g.rng.pos + (k - 1) * dim]).value],
             scalar |-> [k \in 1..n |->
                generate_scalar([g EXCEPT !.rng.pos =
                                    g.rng.pos + n * dim + (k - 1) * len]).value]],
         gen   |-> [g EXCEPT !.rng.pos = g.rng.pos + n * (dim + len)]]

\* a RecordBatch of the schema's two columns (vector, scalar) in this order,
\* and the generator after
generate_batch(g, batch_size) ==
    LET r == batch_loop([vector_data |-> <<>>, scalar_data |-> <<>>, gen |-> g],
                        batch_size)
    IN  [batch |-> [schema |-> <<"vector", "scalar">>,
                    vector |-> r.vector_data, scalar |-> r.scalar_data],
         gen   |-> r.gen]

\* RecordBatch::num_rows
num_rows(record_batch) ==
    Len(record_batch.vector)

\* the rows of a batch, in order
batch_rows_of(record_batch) ==
    [i \in 1..Len(record_batch.vector) |->
        <<record_batch.vector[i], record_batch.scalar[i]>>]

bytes_per_row(config) ==
    (config.vector_dim * 4 + 8) + (config.scalar_len + 8)

estimate_rows_per_file_nofloor(g) ==
    g.config.target_file_size \div bytes_per_row(g.config)

estimate_rows_per_file(g) ==
    LET q == g.config.target_file_size \div bytes_per_row(g.config)
    IN  IF q >= 1 THEN q ELSE 1

\* ------------------------------------------------ lib.rs: ParquetWriter

\* batch_size.min(remaining_rows)
current_batch_size_nomin(batch_size, remaining) ==
    batch_size

current_batch_size(batch_size, remaining) ==
    IF batch_size <= remaining THEN batch_size ELSE remaining

\* the file currently being written is the last one created
cur ==
    Len(disk)

\* File::create and ArrowWriter::try_new, then the two counters
write_to_file_create ==
    /\ pc = "Create"
    /\ disk' = Append(disk, [index |-> num_files, seed |-> file_generator.rng.seed,
                             rows |-> <<>>, batches |-> <<>>, closed |-> FALSE])
    /\ total_rows' = 0
    /\ remaining_rows' = num_rows_to_write
    /\ pc' = "Batch"
    /\ UNCHANGED <<args, profile, generator, batch, error, rows_per_file,
                   num_files, total_rows_written, file_seed, file_generator,
                   num_rows_to_write, rows_written, progress, reports,
                   summary>>

\* the head of one iteration of `while remaining_rows > 0`: the size of the
\* batch, and the batch drawn from the generator
write_to_file_batch ==
    /\ pc = "Batch"
    /\ remaining_rows > 0
    /\ Len(disk[cur].batches) < MaxBatches
    /\ \E r \in {generate_batch(file_generator,
                     current_batch_size(args.batch_size, remaining_rows))} :
          /\ file_generator' = r.gen
          /\ batch' = Append(batch, r.batch)
    /\ pc' = "Write"
    /\ UNCHANGED <<args, profile, generator, error, rows_per_file, num_files,
                   total_rows_written, file_seed, num_rows_to_write,
                   rows_written, total_rows, remaining_rows, disk, progress,
                   reports, summary>>

\* the bug of a loop that forgets to count down
write_to_file_write_nodecrement ==
    /\ pc = "Write"
    /\ LET batch_rows == num_rows(batch[1])
       IN  /\ disk' = [disk EXCEPT ![cur].rows = @ \o batch_rows_of(batch[1]),
                                   ![cur].batches = Append(@, batch_rows)]
           /\ total_rows' = total_rows + batch_rows
           /\ remaining_rows' = remaining_rows
    /\ batch' = Tail(batch)
    /\ pc' = "Batch"
    /\ UNCHANGED <<args, profile, generator, error, rows_per_file, num_files,
                   total_rows_written, file_seed, file_generator,
                   num_rows_to_write, rows_written, progress, reports,
                   summary>>

\* the rest of the iteration: writer.write(&batch), the two counters, and
\* the batch dropped at the end of the loop body
write_to_file_write ==
    /\ pc = "Write"
    /\ LET batch_rows == num_rows(batch[1])
       IN  /\ disk' = [disk EXCEPT ![cur].rows = @ \o batch_rows_of(batch[1]),
                                   ![cur].batches = Append(@, batch_rows)]
           /\ total_rows' = total_rows + batch_rows
           /\ remaining_rows' = remaining_rows - batch_rows
    /\ batch' = Tail(batch)
    /\ pc' = "Batch"
    /\ UNCHANGED <<args, profile, generator, error, rows_per_file, num_files,
                   total_rows_written, file_seed, file_generator,
                   num_rows_to_write, rows_written, progress, reports,
                   summary>>

\* the bug of a writer that is never closed
write_to_file_close_forgotten ==
    /\ pc = "Batch"
    /\ remaining_rows <= 0
    /\ disk' = disk
    /\ rows_written' = total_rows
    /\ pc' = "Returned"
    /\ UNCHANGED <<args, profile, generator, batch, error, rows_per_file,
                   num_files, total_rows_written, file_seed, file_generator,
                   num_rows_to_write, total_rows, remaining_rows, progress,
                   reports, summary>>

\* writer.close() and Ok(total_rows)
write_to_file_close ==
    /\ pc = "Batch"
    /\ remaining_rows <= 0
    /\ disk' = [disk EXCEPT ![cur].closed = TRUE]
    /\ rows_written' = total_rows
    /\ pc' = "Returned"
    /\ UNCHANGED <<args, profile, generator, batch, error, rows_per_file,
                   num_files, total_rows_written, file_seed, file_generator,
                   num_rows_to_write, total_rows, remaining_rows, progress,
                   reports, summary>>

\* ------------------------------------------------------- main.rs: main

\* main up to the loop: the configuration, the estimate, the progress bar
main_start ==
    /\ pc = "Start"
    /\ generator' = <<DataGenerator_new(Config_new(args.vector_dim,
                         args.scalar_len, args.file_size, args.seed))>>
    /\ rows_per_file' = estimate_rows_per_file(generator'[1])
    /\ progress' = [len |-> args.total_rows, pos |-> 0, finished |-> FALSE]
    /\ num_files' = 0
    /\ total_rows_written' = 0
    /\ pc' = "Loop"
    /\ UNCHANGED <<args, profile, batch, error, file_seed, file_generator,
                   num_rows_to_write, rows_written, total_rows,
                   remaining_rows, disk, reports, summary>>

\* if remaining_rows > rows_per_file { rows_per_file } else { remaining_rows }
rows_for_file_padded(remaining, per_file) ==
    per_file

rows_for_file(remaining, per_file) ==
    IF remaining > per_file THEN per_file ELSE remaining

\* a + b on u64 overflows
u64_overflows(a, b) ==
    a + b > U64_MAX

\* a + b on u64 where the addition does not panic: the sum, wrapped around
u64_add(a, b) ==
    (a + b) % (U64_MAX + 1)

\* the bug of a loop that keeps drawing from one generator for every file
main_loop_begin_reuse ==
    /\ pc = "Loop"
    /\ ~(profile = "debug" /\ u64_overflows(args.seed, num_files))
    /\ file_seed' = u64_add(args.seed, num_files)
    /\ file_generator' = file_generator
    /\ num_rows_to_write' = rows_for_file(args.total_rows - total_rows_written,
                                          rows_per_file)
    /\ pc' = "Create"
    /\ UNCHANGED <<args, profile, generator, batch, error, rows_per_file,
                   num_files, total_rows_written, rows_written, total_rows,
                   remaining_rows, disk, progress, reports, summary>>

\* the head of the loop body: the seed, the generator and the quota of the file
main_loop_begin ==
    /\ pc = "Loop"
    /\ ~(profile = "debug" /\ u64_overflows(args.seed, num_files))
    /\ file_seed' = u64_add(args.seed, num_files)
    /\ file_generator' = DataGenerator_new(
           Config_new(args.vector_dim, args.scalar_len, args.file_size,
                      u64_add(args.seed, num_files)))
    /\ num_rows_to_write' = rows_for_file(args.total_rows - total_rows_written,
                                          rows_per_file)
    /\ pc' = "Create"
    /\ UNCHANGED <<args, profile, generator, batch, error, rows_per_file,
                   num_files, total_rows_written, rows_written, total_rows,
                   remaining_rows, disk, progress, reports, summary>>

\* args.seed + num_files as u64 overflows in a build with overflow checks:
\* main panics ("attempt to add with overflow")
main_loop_begin_panic ==
    /\ pc = "Loop"
    /\ profile = "debug"
    /\ u64_overflows(args.seed, num_files)
    /\ pc' = "Panicked"
    /\ UNCHANGED <<args, profile, generator, batch, error, rows_per_file,
                   num_files, total_rows_written, file_seed, file_generator,
                   num_rows_to_write, rows_written, total_rows,
                   remaining_rows, disk, progress, reports, summary>>

\* after write_to_file returned: add up, leave the loop or count the file
main_after_write ==
    /\ pc = "Returned"
    /\ total_rows_written' = total_rows_written + rows_written
    /\ IF total_rows_written + rows_written >= args.total_rows
       THEN /\ pc' = "Finish"
            /\ num_files' = num_files
       ELSE /\ pc' = "Report"
            /\ num_files' = num_files + 1
    /\ UNCHANGED <<args, profile, generator, batch, error, rows_per_file,
                   file_seed, file_generator, num_rows_to_write, rows_written,
                   total_rows, remaining_rows, disk, progress, reports,
                   summary>>

\* the rest of the loop body: the file's size, the message, progress.inc
main_report ==
    /\ pc = "Report"
    /\ reports' = Append(reports, [file_index |-> disk[cur].index,
                                   rows_written |-> rows_written])
    /\ progress' = [progress EXCEPT !.pos = @ + rows_written]
    /\ pc' = "Loop"
    /\ UNCHANGED <<args, profile, generator, batch, error, rows_per_file,
                   num_files, total_rows_written, file_seed, file_generator,
                   num_rows_to_write, rows_written, total_rows,
                   remaining_rows, disk, summary>>

\* after the loop: finish the progress bar, print the number of files
main_finish ==
    /\ pc = "Finish"
    /\ progress' = [progress EXCEPT !.finished = TRUE]
    /\ summary' = <<num_files>>
    /\ pc' = "Done"
    /\ UNCHANGED <<args, profile, generator, batch, error, rows_per_file,
                   num_files, total_rows_written, file_seed, file_generator,
                   num_rows_to_write, rows_written, total_rows,
                   remaining_rows, disk, reports>>

\* ------------------------------------------------------- I/O failures

\* create_dir_all fails: main returns the error
create_dir_fail ==
    /\ pc = "Start"
    /\ pc' = "Failed"
    /\ error' = "create_dir"
    /\ UNCHANGED <<args, profile, generator, batch, rows_per_file, num_files,
                   total_rows_written, file_seed, file_generator,
                   num_rows_to_write, rows_written, total_rows,
                   remaining_rows, disk, progress, reports, summary>>

\* File::create fails (no file), or ArrowWriter::try_new fails (an empty file)
create_fail ==
    /\ pc = "Create"
    /\ \E created \in BOOLEAN :
          disk' = IF created
                  THEN Append(disk, [index |-> num_files,
                                     seed |-> file_generator.rng.seed,
                                     rows |-> <<>>, batches |-> <<>>,
                                     closed |-> FALSE])
                  ELSE disk
    /\ pc' = "Failed"
    /\ error' = "create"
    /\ UNCHANGED <<args, profile, generator, batch, rows_per_file, num_files,
                   total_rows_written, file_seed, file_generator,
                   num_rows_to_write, rows_written, total_rows,
                   remaining_rows, progress, reports, summary>>

\* the bug of an error that is noted and swallowed: the loop goes on
write_fail_swallowed ==
    /\ pc = "Write"
    /\ batch' = Tail(batch)
    /\ pc' = "Batch"
    /\ error' = "write"
    /\ UNCHANGED <<args, profile, generator, rows_per_file, num_files,
                   total_rows_written, file_seed, file_generator,
                   num_rows_to_write, rows_written, total_rows,
                   remaining_rows, disk, progress, reports, summary>>

\* writer.write fails: the batch was generated and is dropped unwritten
write_fail ==
    /\ pc = "Write"
    /\ batch' = Tail(batch)
    /\ pc' = "Failed"
    /\ error' = "write"
    /\ UNCHANGED <<args, profile, generator, rows_per_file, num_files,
                   total_rows_written, file_seed, file_generator,
                   num_rows_to_write, rows_written, total_rows,
                   remaining_rows, disk, progress, reports, summary>>

\* writer.close fails: the file stays without its footer
close_fail ==
    /\ pc = "Batch"
    /\ remaining_rows <= 0
    /\ pc' = "Failed"
    /\ error' = "close"
    /\ UNCHANGED <<args, profile, generator, batch, rows_per_file, num_files,
                   total_rows_written, file_seed, file_generator,
                   num_rows_to_write, rows_written, total_rows,
                   remaining_rows, disk, progress, reports, summary>>

\* std::fs::metadata fails
metadata_fail ==
    /\ pc = "Report"
    /\ pc' = "Failed"
    /\ error' = "metadata"
    /\ UNCHANGED <<args, profile, generator, batch, rows_per_file, num_files,
                   total_rows_written, file_seed, file_generator,
                   num_rows_to_write, rows_written, total_rows,
                   remaining_rows, disk, progress, reports, summary>>

\* ------------------------------------------------------- specification

Init ==
    /\ args \in [total_rows : TotalRowsInputs,
                 vector_dim : VectorDims,
                 scalar_len : ScalarLens,
                 file_size  : FileSizes,
                 seed       : Seeds,
                 batch_size : 0..MaxBatchSize]
    /\ profile \in Profiles
    /\ pc = "Start"
    /\ error = "none"
    /\ generator = <<>>
    /\ rows_per_file = 0
    /\ num_files = 0
    /\ total_rows_written = 0
    /\ file_seed = 0
    /\ file_generator = DataGenerator_new(Config_new(args.vector_dim,
                            args.scalar_len, args.file_size, args.seed))
    /\ num_rows_to_write = 0
    /\ rows_written = 0
    /\ total_rows = 0
    /\ remaining_rows = 0
    /\ batch = <<>>
    /\ disk = <<>>
    /\ progress = [len |-> 0, pos |-> 0, finished |-> FALSE]
    /\ reports = <<>>
    /\ summary = <<>>

\* the steps of a run in which no I/O operation fails
NextOK ==
    \/ main_start
    \/ main_loop_begin
    \/ main_loop_begin_panic
    \/ write_to_file_create
    \/ write_to_file_batch
    \/ write_to_file_write
    \/ write_to_file_close
    \/ main_after_write
    \/ main_report
    \/ main_finish

Next ==
    \/ NextOK
    \/ create_dir_fail
    \/ create_fail
    \/ write_fail
    \/ close_fail
    \/ metadata_fail

Spec ==
    Init /\ [][Next]_vars

\* termination does not depend on the content of the rows: the runs without
\* I/O failure are explored for the narrowest rows, and for the seed 0, from
\* which no seed of a file overflows, and the largest seed
LiveInit ==
    /\ Init
    /\ args.vector_dim = 1
    /\ args.scalar_len = 1
    /\ args.seed \in {0, U64_MAX}

\* a run without I/O failure; the program is sequential and keeps running
LiveSpec ==
    LiveInit /\ [][NextOK]_vars /\ WF_vars(NextOK)

\* ------------------------------------------------------- properties

RECURSIVE SumSeq(_)
SumSeq(s) ==
    IF s = <<>> THEN 0 ELSE s[1] + SumSeq(Tail(s))

\* the number of rows each file on disk holds, in the order of creation
FileRowCounts ==
    [i \in 1..Len(disk) |-> Len(disk[i].rows)]

\* base_seed + i as a 64-bit unsigned integer: the seed of the file of index i
SeedOfFile(i) ==
    (args.seed + i) % (U64_MAX + 1)

\* the run of the specification's scenarios: 40 bytes per row, 25 rows per file
Scenario60 ==
    /\ args.vector_dim = 4
    /\ args.scalar_len = 8
    /\ args.file_size = 1000
    /\ args.batch_size = 2
    /\ args.total_rows = 60

\* C1: a run that ends without I/O error (with a batch size of at least 1)
\* has written files whose row counts sum to exactly total_rows, and every
\* one of them is closed.
C1_RowsSumToTarget ==
    (pc = "Done" /\ args.batch_size >= 1)
        => /\ SumSeq(FileRowCounts) = args.total_rows
           /\ total_rows_written = args.total_rows
           /\ \A i \in 1..Len(disk) : disk[i].closed

C1_Witness ==
    /\ pc = "Done"
    /\ args.batch_size >= 1
    /\ args.total_rows = 7
    /\ rows_per_file = 2
    /\ FileRowCounts = <<2, 2, 2, 1>>

\* C2: in a completed run every file holds at most rows_per_file rows, every
\* file but the last holds exactly rows_per_file rows, and the last holds
\* exactly the rows that were still missing (never padded to rows_per_file).
C2_FileSizes ==
    (pc = "Done" /\ args.batch_size >= 1)
        => /\ Len(disk) >= 1
           /\ \A i \in 1..Len(disk) :
                 /\ Len(disk[i].rows) <= rows_per_file
                 /\ i < Len(disk) => Len(disk[i].rows) = rows_per_file
           /\ Len(disk[Len(disk)].rows)
                 = args.total_rows - rows_per_file * (Len(disk) - 1)

C2_Witness ==
    /\ pc = "Done"
    /\ args.batch_size >= 1
    /\ Len(disk) >= 2
    /\ Len(disk[Len(disk)].rows) < rows_per_file
    /\ Len(disk[Len(disk)].rows) > 0

\* C3 as stated: the scenario with total_rows = 60 ends with exactly two
\* files, file 0 with 25 rows of seed + 0 and file 1 with 35 rows of seed + 1.
C3_TwoFiles ==
    (pc = "Done" /\ Scenario60)
        => /\ rows_per_file = 25
           /\ FileRowCounts = <<25, 35>>
           /\ disk[1].seed = SeedOfFile(0)
           /\ disk[2].seed = SeedOfFile(1)

\* C3 amended: the scenario with total_rows = 60, when it runs to the end,
\* ends with exactly three files: file 0 with 25 rows of seed + 0, file 1
\* with 25 rows of seed + 1 and file 2 with 10 rows of seed + 2 (sums of
\* 64-bit unsigned integers).
C3_ThreeFiles ==
    (pc = "Done" /\ Scenario60)
        => /\ rows_per_file = 25
           /\ FileRowCounts = <<25, 25, 10>>
           /\ \A i \in 1..3 : /\ disk[i].index = i - 1
                              /\ disk[i].seed = SeedOfFile(i - 1)
                              /\ disk[i].closed

C3_Witness ==
    /\ pc = "Done"
    /\ Scenario60
    /\ Len(disk) = 3

\* the batch sizes the claim gives for a file of n rows and a cap b >= 1
ExpectedBatches(n, b) ==
    [k \in 1..((n \div b) + (IF n % b = 0 THEN 0 ELSE 1)) |->
        IF k <= n \div b THEN b ELSE n % b]

IsPrefix(s, t) ==
    /\ Len(s) <= Len(t)
    /\ \A k \in 1..Len(s) : s[k] = t[k]

\* C4: with a batch size b >= 1, the batches written to a file of n rows are
\* b, repeated floor(n / b) times, then n mod b when that is not 0: what has
\* been written so far is a prefix of that sequence and leaves the rest of
\* the quota to write, and when write_to_file returns it is the whole
\* sequence (no batch after the quota reached 0).
C4_BatchSizes ==
    (args.batch_size >= 1)
        => /\ pc = "Batch"
                => /\ IsPrefix(disk[cur].batches,
                               ExpectedBatches(num_rows_to_write, args.batch_size))
                   /\ remaining_rows
                         = num_rows_to_write - SumSeq(disk[cur].batches)
           /\ pc = "Returned"
                => disk[cur].batches
                      = ExpectedBatches(num_rows_to_write, args.batch_size)

C4_Witness ==
    /\ pc = "Returned"
    /\ num_rows_to_write = 5
    /\ args.batch_size = 2
    /\ disk[cur].batches = <<2, 2, 1>>
    /\ Len(disk) = 1

\* C5: with a batch size of at least 1, write_to_file returns exactly the
\* number of rows it was asked for, and that is the number of rows of the
\* batches it wrote to the file before it closed it.
C5_ReturnsNumRows ==
    (pc = "Returned" /\ args.batch_size >= 1)
        => /\ rows_written = num_rows_to_write
           /\ rows_written = SumSeq(disk[cur].batches)
           /\ rows_written = Len(disk[cur].rows)
           /\ disk[cur].closed

C5_Witness ==
    /\ pc = "Returned"
    /\ args.batch_size = 3
    /\ num_rows_to_write = 7
    /\ rows_written = 7

\* C6: once main has called it, estimate_rows_per_file is max(1, floor(file_size / bytes per row)),
\* with (vector_dim * 4 + 8) + (scalar_len + 8) bytes per row: it is 1 when
\* the file size is below the cost of one row, and otherwise the largest
\* number of rows whose cost fits into the file size.
C6_Estimate ==
    (pc # "Start" /\ error # "create_dir")
        => LET cost == (args.vector_dim * 4 + 8) + (args.scalar_len + 8)
           IN  /\ rows_per_file >= 1
               /\ args.file_size < cost => rows_per_file = 1
               /\ args.file_size >= cost
                     => /\ rows_per_file * cost <= args.file_size
                        /\ args.file_size < (rows_per_file + 1) * cost

C6_Witness ==
    /\ pc = "Loop"
    /\ args.file_size = 1
    /\ args.vector_dim = 4
    /\ rows_per_file = 1

\* C7 as stated: with a batch size of at least 1 and no I/O failure, the
\* run reaches Done, and every call of write_to_file returns.
C7_Terminates ==
    /\ (pc = "Start" /\ args.batch_size >= 1) ~> (pc = "Done")
    /\ (pc = "Batch" /\ args.batch_size >= 1) ~> (pc = "Returned")

\* what holds instead: such a run reaches Done or panics on the overflow of
\* the seed addition, and every call of write_to_file returns
C7_TerminatesOrPanics ==
    /\ (pc = "Start" /\ args.batch_size >= 1) ~> (pc \in {"Done", "Panicked"})
    /\ (pc = "Start" /\ args.batch_size >= 1
           /\ ~(profile = "debug" /\ args.seed = U64_MAX))
          ~> (pc = "Done")
    /\ (pc = "Batch" /\ args.batch_size >= 1) ~> (pc = "Returned")

C7_Witness ==
    /\ pc = "Done"
    /\ args.batch_size = 1
    /\ args.total_rows = 60
    /\ Len(disk) = 60

\* C8 as stated (for a batch size of at least 1): no file is opened while
\* no row remains to be written, and every file that was written and closed
\* holds at least 1 row.
C8_NoEmptyFile ==
    (args.batch_size >= 1)
        => /\ pc = "Create" => args.total_rows - total_rows_written > 0
           /\ \A i \in 1..Len(disk) : disk[i].closed => Len(disk[i].rows) >= 1

\* C9 as stated: when a run for at least 1 row is Done, every closed file,
\* the last one included, was reported to the progress observer with its
\* index and its row count, and the rows reported sum to total_rows.
C9_EveryFileReported ==
    (pc = "Done" /\ args.batch_size >= 1 /\ args.total_rows >= 1)
        => /\ \A i \in 1..Len(disk) :
                 \E r \in 1..Len(reports) :
                    /\ reports[r].file_index = disk[i].index
                    /\ reports[r].rows_written = Len(disk[i].rows)
           /\ progress.pos = args.total_rows

\* C10 as stated: when a run for at least 1 row is Done, the file count
\* printed at the end is the number of files created and closed during the
\* run.
C10_FileCount ==
    (pc = "Done" /\ args.batch_size >= 1 /\ args.total_rows >= 1)
        => /\ Len(summary) = 1
           /\ summary[1] = Cardinality({i \in 1..Len(disk) : disk[i].closed})

\* the number of values a generator draws for one row
Stride ==
    args.vector_dim + args.scalar_len

\* a generator as main builds it for the seed s, before any draw
FreshGenerator(s) ==
    [config |-> [vector_dim |-> args.vector_dim, scalar_len |-> args.scalar_len,
                 target_file_size |-> args.file_size, seed |-> s],
     rng    |-> [seed |-> s, pos |-> 0]]

\* the rows generated for the file being written: those on disk and those
\* of the batch not yet written
RowsDrawn ==
    Len(disk[cur].rows) + (IF batch = <<>> THEN 0 ELSE Len(batch[1].vector))

\* C11: file indices start at 0 and increase by 1; the file of index i is
\* written from a generator built anew from the seed base_seed + i (a sum of
\* 64-bit unsigned integers): when the file is created the generator has
\* drawn nothing, while it is written the generator has drawn exactly the
\* rows of this file, and the first row of every file is the first row of
\* its seed's stream (nothing continues the previous file's or another
\* generator's draws); the generator built for the estimate never draws.
C11_FreshGeneratorPerFile ==
    /\ \A i \in 1..Len(disk) :
          /\ disk[i].index = i - 1
          /\ disk[i].seed = SeedOfFile(i - 1)
          /\ disk[i].rows # <<>>
                => disk[i].rows[1]
                      = <<generate_vector(FreshGenerator(SeedOfFile(i - 1))).value,
                          generate_scalar(generate_vector(
                              FreshGenerator(SeedOfFile(i - 1))).gen).value>>
    /\ generator # <<>> => generator[1] = FreshGenerator(args.seed)
    /\ pc = "Create" => file_generator = FreshGenerator(SeedOfFile(num_files))
    /\ pc \in {"Batch", "Write"}
          => /\ file_generator.rng.seed = SeedOfFile(disk[cur].index)
             /\ file_generator.rng.pos = RowsDrawn * Stride

C11_Witness ==
    /\ pc = "Write"
    /\ Len(disk) = 3
    /\ args.seed = 1
    /\ disk[3].seed = 3
    /\ Len(disk[3].rows) = 2
    /\ Len(disk[1].rows) = 3

\* C12: an I/O failure while file i is created, written or closed ends the
\* run at once with that error: the step that fails leads to Failed with the
\* error set and returned (no summary is printed), it writes no batch, opens
\* no file beyond file i and leaves every file closed before as it was, and
\* from Failed nothing happens any more (no retry, no further file).
C12_AbortOnFailure ==
    [][/\ error # "none" => UNCHANGED vars
       /\ error' # "none"
             => /\ pc' = "Failed"
                /\ summary' = <<>>
                /\ reports' = reports
       /\ (error = "none" /\ error' # "none")
             => /\ \A i \in 1..Len(disk) :
                      /\ i <= Len(disk')
                      /\ disk'[i] = disk[i]
                /\ Len(disk') <= Len(disk) + 1
                /\ Len(disk') = Len(disk) + 1
                      => /\ pc = "Create"
                         /\ disk'[Len(disk')].index = num_files
                         /\ disk'[Len(disk')].rows = <<>>
                /\ num_files' = num_files
                /\ total_rows_written' = total_rows_written
       /\ pc' = "Failed" => error' # "none"]_vars

C12_Witness ==
    /\ pc = "Failed"
    /\ error = "write"
    /\ Len(disk) = 2
    /\ disk[1].closed
    /\ ~disk[2].closed
    /\ Len(disk[2].rows) > 0

\* what a run must produce, as a function of the configuration alone ------

\* the rows per file of this configuration
EstimateOf ==
    LET cost == (args.vector_dim * 4 + 8) + (args.scalar_len + 8)
    IN  IF args.file_size >= cost THEN args.file_size \div cost ELSE 1

\* the number of files of a completed run: the rows divided by the rows per
\* file, rounded up, and one (empty) file for no rows at all
FilesOf ==
    IF args.total_rows = 0
    THEN 1
    ELSE (args.total_rows + EstimateOf - 1) \div EstimateOf

\* the number of rows of the file of index i of a completed run
RowsOf(i) ==
    IF args.total_rows - i * EstimateOf > EstimateOf
    THEN EstimateOf
    ELSE args.total_rows - i * EstimateOf

\* row k (from 0) of the stream of the seed s: vector_dim values as 4 bytes
\* each, least significant byte first, then scalar_len characters
RowOfStream(s, k) ==
    <<[j \in 1..(4 * args.vector_dim) |->
          (Sample(s, k * Stride + ((j - 1) \div 4)) \div (256 ^ ((j - 1) % 4))) % 256],
      [c \in 1..args.scalar_len |->
          Sample(s, k * Stride + args.vector_dim + (c - 1)) % 62]>>

\* C13: the files of a completed run are a function of the configuration
\* alone (with the generator a function of seed and number of draws): their
\* number, the row count of each and every row in order are determined by
\* the arguments, so two runs with the same configuration produce the same
\* files with the same rows.
C13_OutputDeterminedByConfig ==
    (pc = "Done")
        => /\ Len(disk) = FilesOf
           /\ \A i \in 1..Len(disk) :
                 /\ disk[i].index = i - 1
                 /\ disk[i].closed
                 /\ Len(disk[i].rows) = RowsOf(i - 1)
                 /\ \A k \in 1..Len(disk[i].rows) :
                       disk[i].rows[k] = RowOfStream(SeedOfFile(i - 1), k - 1)

C13_Witness ==
    /\ pc = "Done"
    /\ args.seed = 1
    /\ args.vector_dim = 4
    /\ args.scalar_len = 8
    /\ args.total_rows = 7
    /\ args.batch_size = 2
    /\ FileRowCounts = <<2, 2, 2, 1>>

\* C14 as stated: every iteration of the batch loop of write_to_file leaves
\* fewer rows remaining than before it, whatever the batch size.
C14_EveryIterationDecreases ==
    [][(pc = "Write" /\ pc' = "Batch") => remaining_rows' < remaining_rows]_vars

\* the files created and not closed
OpenFiles ==
    {i \in 1..Len(disk) : ~disk[i].closed}

RECURSIVE StandaloneRows(_, _)
StandaloneRows(g, n) ==
    IF n <= 0
    THEN <<>>
    ELSE LET r == generate_batch(g, 1)
         IN  <<<<r.batch.vector[1], r.batch.scalar[1]>>>>
                \o StandaloneRows(r.gen, n - 1)

\* C16: at every moment the rows of the file of index i are, in order, the
\* first rows a separate generator seeded with base_seed + i (a sum of
\* 64-bit unsigned integers) produces when asked for one row at a time, as
\* many as the file holds, whatever the batch size the file was written
\* with; a completed file holds n_i of them, its share of the rows.
C16_FileIsStreamPrefix ==
    /\ \A i \in 1..Len(disk) :
          disk[i].rows
             = StandaloneRows(FreshGenerator(SeedOfFile(i - 1)),
                              Len(disk[i].rows))
    /\ pc = "Done"
          => \A i \in 1..Len(disk) : Len(disk[i].rows) = RowsOf(i - 1)

C16_Witness ==
    /\ pc = "Done"
    /\ args.batch_size = 3
    /\ args.seed = 1
    /\ args.vector_dim = 4
    /\ FileRowCounts = <<25, 25, 10>>
    /\ disk[2].seed = 2
    /\ disk[2].batches[1] = 3
    /\ disk[2].rows[3] # disk[2].rows[1]

\* C17: generate_batch(count) returns, without an error, a batch of exactly
\* two columns in the order (vector, scalar) with count rows each; row k is
\* the k-th pair of draws of the generator from where it stood before the
\* call, the vector drawn before the scalar; every vector entry has
\* 4 * vector_dim bytes and every scalar entry scalar_len characters; for
\* count = 0 the batch is empty and the generator has not moved.
C17_BatchShape ==
    pc = "Write"
        => LET b     == batch[1]
               count == current_batch_size(args.batch_size, remaining_rows)
               start == Len(disk[cur].rows)
           IN  /\ error = "none"
               /\ DOMAIN b = {"schema", "vector", "scalar"}
               /\ b.schema = <<"vector", "scalar">>
               /\ Len(b.vector) = count
               /\ Len(b.scalar) = count
               /\ \A k \in 1..count :
                     /\ Len(b.vector[k]) = 4 * args.vector_dim
                     /\ Len(b.scalar[k]) = args.scalar_len
                     /\ <<b.vector[k], b.scalar[k]>>
                           = RowOfStream(file_generator.rng.seed, start + k - 1)
               /\ file_generator.rng.pos = (start + count) * Stride
               /\ count = 0 => b.vector = <<>> /\ b.scalar = <<>>

C17_Witness ==
    /\ pc = "Write"
    /\ args.vector_dim = 4
    /\ args.scalar_len = 8
    /\ Len(batch[1].vector) = 3
    /\ Len(batch[1].vector[3]) = 16
    /\ Len(batch[1].scalar[3]) = 8
    /\ Len(disk[cur].rows) = 3

\* generate_batch(0) has been called: an empty batch is about to be written
C17_EmptyBatchReached ==
    /\ pc = "Write"
    /\ args.batch_size = 0
    /\ batch[1].vector = <<>>
    /\ error = "none"

\* C18: main never has more rows written than the target: the difference
\* args.total_rows - total_rows_written taken at the head of each loop
\* iteration is never negative (positive from the second iteration on), the
\* rows asked for a file never exceed it, and neither do the rows of the
\* file written so far.
C18_NeverAboveTarget ==
    /\ total_rows_written <= args.total_rows
    /\ (pc = "Loop" /\ num_files > 0) => total_rows_written < args.total_rows
    /\ pc \in {"Create", "Batch", "Write", "Returned"}
          => /\ num_rows_to_write <= args.total_rows - total_rows_written
             /\ num_rows_to_write <= rows_per_file
    /\ pc \in {"Batch", "Write"}
          => total_rows_written + total_rows <= args.total_rows
    /\ pc = "Returned"
          => total_rows_written + rows_written <= args.total_rows

C18_Witness ==
    /\ pc = "Returned"
    /\ args.total_rows = 7
    /\ rows_per_file = 3
    /\ total_rows_written = 6
    /\ num_rows_to_write = 1
    /\ rows_written = 1

\* C19 as stated: for every base seed of the 64-bit unsigned range and every
\* file index reached, the addition base_seed + i does not overflow (no
\* panic, the seed of the file is the sum itself), and two files of one run
\* never have the same seed.
C19_SeedNeverOverflows ==
    /\ pc # "Panicked"
    /\ pc = "Loop" => ~u64_overflows(args.seed, num_files)
    /\ \A i \in 1..Len(disk) : disk[i].seed = args.seed + disk[i].index
    /\ \A i, j \in 1..Len(disk) : i # j => disk[i].seed # disk[j].seed

====
